---- MODULE Spec2Model ----
(***************************************************************************)
(* Two programs of the documentation repository:                           *)
(*                                                                         *)
(*  1. main.js of "Saving results to CSV"                                  *)
(*     (src/docs/data_collection_fundamentals/save_to_csv.md, 80-106):     *)
(*     download a page, select div.site-listing, map every listing to a    *)
(*     six-key record, convert to CSV, write alexa-websites.csv.           *)
(*                                                                         *)
(*  2. newmain.py of "Using a scraping framework with Python"              *)
(*     (src/unnamed/part_000, 115-138): a crawler with a default handler   *)
(*     handle_listing and a handler handle_detail for the label DETAIL.    *)
(*                                                                         *)
(* A text is a sequence of one-character strings.                          *)
(***************************************************************************)
EXTENDS Integers, Sequences, FiniteSets, TLC

VARIABLES
    \* ---- main.js ----
    pc,          \* position of the script
    page,        \* the document the server holds: a sequence of div.site-listing
    html,        \* response.body
    sites,       \* $('div.site-listing').toArray()
    results,     \* sites.map(...)
    csv,         \* parse(results)
    file,        \* content of alexa-websites.csv on disk, or NoFile
    writes,      \* number of calls of writeFileSync
    thrown,      \* which call threw, or "none"
    \* ---- newmain.py ----
    cpc,               \* position of main(): "init", "running", "done"
    links,             \* the <a> elements of the listing page, in document order
    queue,             \* the crawler's request queue (pending requests)
    seen,              \* unique keys (URLs) the queue has accepted
    inflight,          \* requests taken from the queue and not yet settled
    log,               \* handler invocations, in order
    requests_finished,
    requests_failed,
    failed             \* the URLs of the requests marked failed

csvVars == <<pc, page, html, sites, results, csv, file, writes, thrown>>
crawlVars == <<cpc, links, queue, seen, inflight, log, requests_finished,
               requests_failed, failed>>
vars == <<pc, page, html, sites, results, csv, file, writes, thrown,
          cpc, links, queue, seen, inflight, log, requests_finished,
          requests_failed, failed>>

(***************************************************************************)
(* Bounds                                                                  *)
(***************************************************************************)
MaxSites == 2
MaxTd == 7
MaxWrap == 2
MaxLinks == 3
MaxRetries == 1

(***************************************************************************)
(* Texts and the DOM of the page                                           *)
(***************************************************************************)
Whitespace == {" ", "\t", "\n"}

\* The file before the script runs: absent, or left by an earlier run.
NoFile == <<"<absent>">>
OldCsv == <<"o", "l", "d">>

Digits == <<"1", "2", "3", "4", "5", "6", "7", "8", "9">>

\* The text of the k-th div.td of a listing: a digit, padded with whitespace
\* at odd positions, and whitespace only at every fourth.
TdText(k) ==
    IF k % 4 = 0 THEN <<" ">>
    ELSE IF k % 2 = 1 THEN <<" ", Digits[((k - 1) % 9) + 1], "\n">>
    ELSE <<Digits[((k - 1) % 9) + 1]>>

\* A div.site-listing with n div.td elements, the w-th of them (0 < w <= n)
\* wrapped in a div that is not a div.td. A node is a div.td with its text,
\* or a wrapper with the div.td elements it holds.
Listing(n, w) ==
    [k \in 1..n |->
        IF k = w THEN [td |-> FALSE, text |-> <<>>, kids |-> <<TdText(k)>>]
        ELSE [td |-> TRUE, text |-> TdText(k), kids |-> <<>>]]

Listings == {Listing(n, w) : n \in 0..MaxTd, w \in 0..MaxWrap}

RECURSIVE SeqsUpTo(_, _)
SeqsUpTo(S, n) ==
    IF n = 0 THEN {<<>>}
    ELSE LET shorter == SeqsUpTo(S, n - 1)
         IN shorter \cup {Append(s, x) : s \in {t \in shorter : Len(t) = n - 1}, x \in S}

Pages == SeqsUpTo(Listings, MaxSites)

(***************************************************************************)
(* cheerio: find, eq, text; String.prototype.trim                          *)
(***************************************************************************)
\* $(site).find('div.td'): every div.td below site, in document order.
RECURSIVE find(_)
find(site) ==
    IF site = <<>> THEN <<>>
    ELSE LET node == Head(site)
         IN (IF node.td THEN <<node.text>> ELSE node.kids) \o find(Tail(site))

\* fields.eq(i).text(): the text of the i-th element (from 0), "" when the
\* selection has no such element.
eqText(fields, i) == IF i + 1 \in DOMAIN fields THEN fields[i + 1] ELSE <<>>

RECURSIVE trimStart(_)
trimStart(s) ==
    IF s # <<>> /\ Head(s) \in Whitespace THEN trimStart(Tail(s)) ELSE s

RECURSIVE trimEnd(_)
trimEnd(s) ==
    IF s # <<>> /\ s[Len(s)] \in Whitespace
    THEN trimEnd(SubSeq(s, 1, Len(s) - 1)) ELSE s

trim(s) == trimEnd(trimStart(s))

\* The keys of a record, in the order the object literal writes them.
Keys == <<"rank", "site", "dailyTimeOnSite", "dailyPageViews",
          "percentFromSearch", "totalLinkingSites">>

\* A slip in the callback: eq counted from 1, so every field is taken from
\* the next div.td.
toRecord_OffByOne(site) ==
    LET fields == find(site)
    IN [rank              |-> trim(eqText(fields, 1)),
        site              |-> trim(eqText(fields, 2)),
        dailyTimeOnSite   |-> trim(eqText(fields, 3)),
        dailyPageViews    |-> trim(eqText(fields, 4)),
        percentFromSearch |-> trim(eqText(fields, 5)),
        totalLinkingSites |-> trim(eqText(fields, 6))]

\* The callback of sites.map.
toRecord(site) ==
    LET fields == find(site)
    IN [rank              |-> trim(eqText(fields, 0)),
        site              |-> trim(eqText(fields, 1)),
        dailyTimeOnSite   |-> trim(eqText(fields, 2)),
        dailyPageViews    |-> trim(eqText(fields, 3)),
        percentFromSearch |-> trim(eqText(fields, 4)),
        totalLinkingSites |-> trim(eqText(fields, 5))]

mapSites(ss) == [i \in DOMAIN ss |-> toRecord(ss[i])]

(***************************************************************************)
(* json2csv parse                                                          *)
(***************************************************************************)
RECURSIVE escapeQuotes(_)
escapeQuotes(s) ==
    IF s = <<>> THEN <<>>
    ELSE (IF Head(s) = "\"" THEN <<"\"", "\"">> ELSE <<Head(s)>>)
         \o escapeQuotes(Tail(s))

quote(s) == <<"\"">> \o escapeQuotes(s) \o <<"\"">>

RECURSIVE join(_, _)
join(parts, sep) ==
    IF parts = <<>> THEN <<>>
    ELSE IF Len(parts) = 1 THEN parts[1]
    ELSE parts[1] \o sep \o join(Tail(parts), sep)

csvHeader == join([k \in DOMAIN Keys |-> quote(<<Keys[k]>>)], <<",">>)
csvRow(rec) == join([k \in DOMAIN Keys |-> quote(rec[Keys[k]])], <<",">>)

\* parse(data) of a non-empty array: the header line and one line per record.
parse(data) ==
    join(<<csvHeader>> \o [i \in DOMAIN data |-> csvRow(data[i])], <<"\n">>)

\* parse throws on an empty array when no fields option is given.
parseThrows(data) == data = <<>>

(***************************************************************************)
(* main.js                                                                 *)
(***************************************************************************)
crawlIdle ==
    /\ cpc = "off"
    /\ links = <<>>
    /\ queue = <<>>
    /\ seen = {}
    /\ inflight = {}
    /\ log = <<>>
    /\ requests_finished = 0
    /\ requests_failed = 0
    /\ failed = {}

InitCsv ==
    /\ pc = "download"
    /\ page \in Pages
    /\ html = <<>>
    /\ sites = <<>>
    /\ results = <<>>
    /\ csv = <<>>
    /\ file \in {NoFile, OldCsv}
    /\ writes = 0
    /\ thrown = "none"
    /\ crawlIdle

\* const response = await gotScraping(url); const html = response.body;
gotScraping ==
    /\ pc = "download"
    /\ html' = page
    /\ pc' = "load"
    /\ UNCHANGED <<page, sites, results, csv, file, writes, thrown>>
    /\ UNCHANGED crawlVars

\* The awaited download rejects: the module stops there.
gotScrapingThrows ==
    /\ pc = "download"
    /\ pc' = "failed"
    /\ thrown' = "gotScraping"
    /\ UNCHANGED <<page, html, sites, results, csv, file, writes>>
    /\ UNCHANGED crawlVars

\* const $ = cheerio.load(html); const sites = $('div.site-listing').toArray();
loadSites ==
    /\ pc = "load"
    /\ sites' = html
    /\ pc' = "map"
    /\ UNCHANGED <<page, html, results, csv, file, writes, thrown>>
    /\ UNCHANGED crawlVars

\* const results = sites.map((site) => {...});
mapResults ==
    /\ pc = "map"
    /\ results' = mapSites(sites)
    /\ pc' = "parse"
    /\ UNCHANGED <<page, html, sites, csv, file, writes, thrown>>
    /\ UNCHANGED crawlVars

\* A slip: the conversion wrapped in a try/catch that goes on to write an
\* empty csv.
parseResults_Swallows ==
    /\ pc = "parse"
    /\ IF parseThrows(results)
       THEN /\ pc' = "write"
            /\ thrown' = "parse"
            /\ csv' = <<>>
       ELSE /\ pc' = "write"
            /\ thrown' = thrown
            /\ csv' = parse(results)
    /\ UNCHANGED <<page, html, sites, results, file, writes>>
    /\ UNCHANGED crawlVars

\* const csv = parse(results);
parseResults ==
    /\ pc = "parse"
    /\ IF parseThrows(results)
       THEN /\ pc' = "failed"
            /\ thrown' = "parse"
            /\ csv' = csv
       ELSE /\ pc' = "write"
            /\ thrown' = thrown
            /\ csv' = parse(results)
    /\ UNCHANGED <<page, html, sites, results, file, writes>>
    /\ UNCHANGED crawlVars

\* A slip: the header is written, the records are not.
writeFileSync_HeaderOnly ==
    /\ pc = "write"
    /\ file' = csvHeader
    /\ writes' = writes + 1
    /\ pc' = "done"
    /\ UNCHANGED <<page, html, sites, results, csv, thrown>>
    /\ UNCHANGED crawlVars

\* writeFileSync('alexa-websites.csv', csv);
writeFileSync ==
    /\ pc = "write"
    /\ file' = csv
    /\ writes' = writes + 1
    /\ pc' = "done"
    /\ UNCHANGED <<page, html, sites, results, csv, thrown>>
    /\ UNCHANGED crawlVars

NextCsv ==
    \/ gotScraping
    \/ gotScrapingThrows
    \/ loadSites
    \/ mapResults
    \/ parseResults
    \/ writeFileSync

SpecCsv == InitCsv /\ [][NextCsv]_vars

(***************************************************************************)
(* newmain.py: the crawler                                                 *)
(***************************************************************************)
\* The URL passed to crawler.run, and the product URLs a link may point to.
StartUrl == "collections/sales"
ProductUrls == {"products/a", "products/b"}

\* desired_concurrency of the autoscaled pool, as the run reports it.
DesiredConcurrency == 2

\* An <a> element of the listing page: where it points, and whether it
\* matches the selector ".product-list a.product-item__title".
Anchors ==
    [href : ProductUrls, match : BOOLEAN] \cup {[href |-> StartUrl, match |-> TRUE]}

ListingPages == SeqsUpTo(Anchors, MaxLinks)

\* The links of the page at url: only the listing page has any.
pageLinks(url) == IF url = StartUrl THEN links ELSE <<>>

Request(url, label) == [url |-> url, label |-> label, retries |-> 0]

\* A slip: the queue takes every request it is given.
addRequests_NoDedup(q, s, reqs) ==
    [queue |-> q \o reqs, seen |-> s \cup {reqs[i].url : i \in DOMAIN reqs}]

\* The request queue takes a request unless it has already accepted one with
\* the same unique key (the URL).
RECURSIVE addRequests(_, _, _)
addRequests(q, s, reqs) ==
    IF reqs = <<>> THEN [queue |-> q, seen |-> s]
    ELSE LET r == Head(reqs)
         IN IF r.url \in s
            THEN addRequests(q, s, Tail(reqs))
            ELSE addRequests(Append(q, r), s \cup {r.url}, Tail(reqs))

RECURSIVE selectLinks(_)
selectLinks(as) ==
    IF as = <<>> THEN <<>>
    ELSE (IF Head(as).match THEN <<Head(as).href>> ELSE <<>>) \o selectLinks(Tail(as))

\* A slip: the selector is ignored and every link of the page is followed.
enqueue_links_AllLinks(as, label) ==
    [i \in DOMAIN as |-> Request(as[i].href, label)]

\* context.enqueue_links(label=..., selector=...): a request, labelled label,
\* for every link of the page the selector matches.
enqueue_links(as, label) ==
    LET hrefs == selectLinks(as)
    IN [i \in DOMAIN hrefs |-> Request(hrefs[i], label)]

\* A slip: the handler registered last takes every request.
route_LastRegistered(label) == "handle_detail"

\* The router: the handler registered for the label of the request, the
\* default handler for a request with no such label.
route(label) == IF label = "DETAIL" THEN "handle_detail" ELSE "handle_listing"

\* A slip: the start URL is given the label DETAIL.
startRequests_Labelled == <<Request(StartUrl, "DETAIL")>>

\* crawler.run([url]): the start URL, with no label.
startRequests == <<Request(StartUrl, "none")>>

requests_total == Cardinality(seen)

csvIdle ==
    /\ pc = "off"
    /\ page = <<>>
    /\ html = <<>>
    /\ sites = <<>>
    /\ results = <<>>
    /\ csv = <<>>
    /\ file = NoFile
    /\ writes = 0
    /\ thrown = "none"

InitCrawl ==
    /\ cpc = "init"
    /\ links \in ListingPages
    /\ queue = <<>>
    /\ seen = {}
    /\ inflight = {}
    /\ log = <<>>
    /\ requests_finished = 0
    /\ requests_failed = 0
    /\ failed = {}
    /\ csvIdle

\* await crawler.run([...]) starts: the start URL enters the queue.
run ==
    /\ cpc = "init"
    /\ LET added == addRequests(queue, seen, startRequests)
       IN /\ queue' = added.queue
          /\ seen' = added.seen
    /\ cpc' = "running"
    /\ UNCHANGED <<links, inflight, log, requests_finished, requests_failed, failed>>
    /\ UNCHANGED csvVars

\* The pool starts a task for the next request of the queue while fewer than
\* DesiredConcurrency tasks run.
fetchNext ==
    /\ cpc = "running"
    /\ queue # <<>>
    /\ Cardinality(inflight) < DesiredConcurrency
    /\ inflight' = inflight \cup {Head(queue)}
    /\ queue' = Tail(queue)
    /\ UNCHANGED <<cpc, links, seen, log, requests_finished, requests_failed, failed>>
    /\ UNCHANGED csvVars

\* async def handle_listing(context): await context.enqueue_links(...)
handle_listing(r) ==
    LET added == addRequests(queue, seen, enqueue_links(pageLinks(r.url), "DETAIL"))
    IN /\ queue' = added.queue
       /\ seen' = added.seen

\* async def handle_detail(context): print(context.request.url)
handle_detail(r) ==
    /\ queue' = queue
    /\ seen' = seen

\* The page of request r is downloaded and the router's handler for r runs
\* to its end: the request is finished.
handleRequest(r) ==
    /\ cpc = "running"
    /\ r \in inflight
    /\ log' = Append(log, [handler |-> route(r.label), url |-> r.url, label |-> r.label])
    /\ IF route(r.label) = "handle_detail" THEN handle_detail(r) ELSE handle_listing(r)
    /\ inflight' = inflight \ {r}
    /\ requests_finished' = requests_finished + 1
    /\ UNCHANGED <<cpc, links, requests_failed, failed>>
    /\ UNCHANGED csvVars

\* The download of request r fails: the request goes back to the queue to be
\* retried, or, its retries used up, is marked failed.
failRequest(r) ==
    /\ cpc = "running"
    /\ r \in inflight
    /\ inflight' = inflight \ {r}
    /\ IF r.retries < MaxRetries
       THEN /\ queue' = Append(queue, [r EXCEPT !.retries = @ + 1])
            /\ UNCHANGED <<requests_failed, failed>>
       ELSE /\ queue' = queue
            /\ requests_failed' = requests_failed + 1
            /\ failed' = failed \cup {r.url}
    /\ UNCHANGED <<cpc, links, seen, log, requests_finished>>
    /\ UNCHANGED csvVars

\* A slip: the run ends as soon as the queue is empty, tasks still running.
finish_QueueOnly ==
    /\ cpc = "running"
    /\ queue = <<>>
    /\ cpc' = "done"
    /\ UNCHANGED <<links, queue, seen, inflight, log, requests_finished,
                   requests_failed, failed>>
    /\ UNCHANGED csvVars

\* "Waiting for remaining tasks to finish", then "Final request statistics":
\* the run ends when the queue is empty and no task runs.
finish ==
    /\ cpc = "running"
    /\ queue = <<>>
    /\ inflight = {}
    /\ cpc' = "done"
    /\ UNCHANGED <<links, queue, seen, inflight, log, requests_finished,
                   requests_failed, failed>>
    /\ UNCHANGED csvVars

NextCrawl ==
    \/ run
    \/ fetchNext
    \/ \E r \in inflight : handleRequest(r)
    \/ \E r \in inflight : failRequest(r)
    \/ finish

SpecCrawl == InitCrawl /\ [][NextCrawl]_vars

\* The event loop runs a task that can run.
FairCrawl == SpecCrawl /\ WF_vars(NextCrawl)

(***************************************************************************)
(* Claims about main.js                                                    *)
(***************************************************************************)
\* div.td texts the record of a listing is expected to hold, given the
\* selection tds of the listing: position k (from 0), trimmed, "" when absent.
expected(tds, k) == IF k < Len(tds) THEN trim(tds[k + 1]) ELSE <<>>

\* What $(site).children('div.td') would select: only the div.td that are children of site.
RECURSIVE children(_)
children(site) ==
    IF site = <<>> THEN <<>>
    ELSE LET node == Head(site)
         IN (IF node.td THEN <<node.text>> ELSE <<>>) \o children(Tail(site))

built == pc \in {"parse", "write", "done"} \/ thrown = "parse"

\* C5: once the script has run to its end, alexa-websites.csv exists and
\* holds exactly parse(results); writeFileSync is called only after the page
\* was downloaded and every record was built.
C5_FileHoldsCsv ==
    /\ pc = "done" => file # NoFile /\ file = parse(results) /\ writes = 1
    /\ writes > 0 => /\ pc = "done"
                     /\ html = page
                     /\ Len(results) = Len(page)
    /\ writes = 0 => file \in {NoFile, OldCsv}

C5_Witness ==
    /\ pc = "done"
    /\ Len(results) = 2
    /\ file # OldCsv
    /\ file # NoFile

\* C6 as stated: one record per div.site-listing, in document order, the six
\* keys taken from the div.td CHILDREN of the listing at positions 0 to 5.
C6_FromChildren ==
    built =>
        /\ Len(results) = Len(page)
        /\ \A i \in DOMAIN results :
              /\ DOMAIN results[i] = {Keys[k] : k \in DOMAIN Keys}
              /\ \A k \in 0..5 :
                    results[i][Keys[k + 1]] = expected(children(page[i]), k)

\* C6 as amended: the six keys are taken from the div.td elements found
\* anywhere below the listing (find), in document order, at positions 0 to 5;
\* fewer than six of them leave the missing keys the empty string.
C6_FromDescendants ==
    built =>
        /\ Len(results) = Len(page)
        /\ \A i \in DOMAIN results :
              /\ DOMAIN results[i] = {Keys[k] : k \in DOMAIN Keys}
              /\ \A k \in 0..5 :
                    /\ results[i][Keys[k + 1]] = expected(find(page[i]), k)
                    /\ LET v == results[i][Keys[k + 1]]
                       IN v # <<>> => v[1] \notin Whitespace /\ v[Len(v)] \notin Whitespace

\* A page of two listings, the first with fewer than six div.td, the second
\* with more than six, one of them wrapped.
C6_Witness ==
    /\ built
    /\ Len(results) = 2
    /\ Len(find(page[1])) \in 1..5
    /\ results[1].totalLinkingSites = <<>>
    /\ results[1].rank # <<>>
    /\ Len(find(page[2])) > 6
    /\ find(page[2]) # children(page[2])

\* C8: when the download or parse(results) throws, the script stops there:
\* no step follows, writeFileSync has not been and is not called, and the
\* file is left as it was.
C8_ThrowLeavesFile ==
    [][ /\ thrown = "none"
        /\ thrown' # "none" => /\ pc' = "failed"
                               /\ file' = file
                               /\ writes' = 0 ]_vars

C8_Witness ==
    /\ thrown = "parse"
    /\ pc = "failed"
    /\ file = OldCsv
    /\ html = page

(***************************************************************************)
(* Claims about newmain.py                                                 *)
(***************************************************************************)
\* The positions of log where handle_listing processed the listing page.
listingAt ==
    {i \in DOMAIN log : log[i].handler = "handle_listing" /\ log[i].url = StartUrl}

\* The URLs of the links of the listing page the selector matches.
matched == {links[i].href : i \in {j \in DOMAIN links : links[j].match}}

\* How many times handle_detail printed url u.
printed(u) ==
    Cardinality({i \in DOMAIN log : log[i].handler = "handle_detail" /\ log[i].url = u})

\* C1: handle_detail is invoked only for requests labelled DETAIL, and a
\* request with no label (the start URL) is processed by handle_listing,
\* never by handle_detail.
C1_RouterDispatch ==
    \A i \in DOMAIN log :
        /\ log[i].handler = "handle_detail" => log[i].label = "DETAIL"
        /\ log[i].label = "none" => /\ log[i].handler = "handle_listing"
                                    /\ log[i].url = StartUrl

C1_Witness ==
    /\ \E i \in DOMAIN log : log[i].handler = "handle_listing" /\ log[i].label = "none"
    /\ \E i \in DOMAIN log : log[i].handler = "handle_detail" /\ log[i].label = "DETAIL"

\* C2: no DETAIL request is queued, fetched or handled before handle_listing
\* has processed the listing page, and every DETAIL request is one that
\* handle_listing enqueued from a matching link.
C2_ListingFirst ==
    /\ \A k \in DOMAIN queue :
          queue[k].label = "DETAIL" => listingAt # {} /\ queue[k].url \in matched
    /\ \A r \in inflight :
          r.label = "DETAIL" => listingAt # {} /\ r.url \in matched
    /\ \A i \in DOMAIN log :
          log[i].label = "DETAIL" =>
              /\ \E j \in listingAt : j < i
              /\ log[i].url \in matched

\* Two DETAIL requests in flight at the same time.
C2_Witness ==
    \E r1, r2 \in inflight :
        /\ r1 # r2
        /\ r1.label = "DETAIL"
        /\ r2.label = "DETAIL"

\* C3 as stated: one request for every matching link, so that a finished run
\* whose listing page has N matching links made exactly 1 + N requests.
C3_OnePerLink ==
    (cpc = "done" /\ listingAt # {}) =>
        /\ requests_total = 1 + Len(selectLinks(links))
        /\ requests_finished + requests_failed = 1 + Len(selectLinks(links))

\* C3 as amended: one request, labelled DETAIL, for every distinct URL among
\* the matching links that the queue has not accepted before, so that the run
\* makes 1 + D requests, D the number of distinct matching URLs other than
\* the URL of the listing page.
C3_OnePerDistinctUrl ==
    /\ listingAt = {} => seen \subseteq {StartUrl}
    /\ listingAt # {} =>
          /\ seen = {StartUrl} \cup matched
          /\ requests_total = 1 + Cardinality(matched \ {StartUrl})
    /\ (cpc = "done" /\ listingAt # {}) =>
          requests_finished + requests_failed = 1 + Cardinality(matched \ {StartUrl})
    /\ \A k \in DOMAIN queue : queue[k].url # StartUrl => queue[k].label = "DETAIL"
    /\ \A r \in inflight : r.url # StartUrl => r.label = "DETAIL"
    /\ \A i \in DOMAIN log : log[i].url # StartUrl => log[i].label = "DETAIL"

\* A finished run over a listing page on which a product URL matches twice
\* and another link does not match.
C3_Witness ==
    /\ cpc = "done"
    /\ listingAt # {}
    /\ Len(selectLinks(links)) > Cardinality(matched)
    /\ Len(links) > Len(selectLinks(links))
    /\ requests_total = 2

\* C4: the run finishes; it finishes only with the queue empty and no task
\* running, and then requests_finished + requests_failed = requests_total.
C4_RunCompletes ==
    /\ <>(cpc = "done")
    /\ [](cpc = "done" =>
            /\ queue = <<>>
            /\ inflight = {}
            /\ requests_finished + requests_failed = requests_total)

C4_Witness ==
    /\ cpc = "done"
    /\ requests_failed >= 1
    /\ requests_finished >= 2

\* C7 as stated: in a finished run handle_detail has printed every distinct
\* product URL enqueued from the listing page exactly once.
C7_ExactlyOnce ==
    cpc = "done" => \A u \in seen \ {StartUrl} : printed(u) = 1

\* C7 as amended: no URL is handled more than once, however often it matches
\* the selector, and in a finished run every distinct product URL enqueued
\* from the listing page has been printed exactly once unless its request
\* was marked failed, in which case it has not been printed.
C7_AtMostOnce ==
    /\ \A u \in seen : Cardinality({i \in DOMAIN log : log[i].url = u}) <= 1
    /\ \A i \in DOMAIN log : log[i].url \in seen
    /\ cpc = "done" =>
          \A u \in seen \ {StartUrl} : printed(u) = IF u \in failed THEN 0 ELSE 1

\* A finished run in which a product URL matched twice and was printed, and
\* another product URL failed.
C7_Witness ==
    /\ cpc = "done"
    /\ Len(selectLinks(links)) > Cardinality(matched)
    /\ \E u \in seen \ {StartUrl} : printed(u) = 1
    /\ \E u \in seen \ {StartUrl} : u \in failed

====
